---- MODULE Spec2Model ----
(***************************************************************************)
(* Daemon fixtures of pytestsalt (src/pytestsalt/fixtures/daemons.py):     *)
(* one run of one daemon fixture around one process handle, the           *)
(* port-probing wait_until_running of the CLI handles, and the operating  *)
(* system's view of the handle's process (running, exited but not yet     *)
(* waited for, waited for).                                                *)
(*                                                                         *)
(* Time is counted in units of 1/16 s: time.sleep(0.125) is PollInterval  *)
(* = 2 units, so that timeouts which are not a multiple of the poll        *)
(* interval exist.  A connect attempt takes no time.                       *)
(***************************************************************************)
EXTENDS Integers, FiniteSets, Sequences, TLC

\* ------------------------------------------------------------ bounds
\* Largest timeout (in time units) a test passes when it calls
\* wait_until_running itself on the handle it was given.
MaxCallerTimeout == 3

\* How many times the post-yield teardown sequence is run on one handle in
\* SpecTwice.
MaxTeardowns == 2

\* ------------------------------------------------------------ constants
\* time.sleep(0.125) in time units of 1/16 s.
PollInterval == 2
\* timeout=None: `until` is never assigned.
None == -1

Seconds(n) == n * 8 * PollInterval

\* ------------------------------------------------------------ fixtures
NonCliKinds == {"salt_master", "salt_minion",
                "session_salt_master", "session_salt_minion"}
CliMasterKinds == {"cli_salt_master", "session_cli_salt_master"}
CliMinionKinds == {"cli_salt_minion", "session_cli_salt_minion"}
CliKinds == CliMasterKinds \cup CliMinionKinds
Kinds == NonCliKinds \cup CliKinds

\* The timeout= argument each fixture passes to wait_until_running.
FixtureTimeout(k) ==
    CASE k \in NonCliKinds -> Seconds(15)
      [] k = "cli_salt_master" -> Seconds(10)
      [] k = "cli_salt_minion" -> Seconds(5)
      [] k = "session_cli_salt_master" -> Seconds(15)
      [] k = "session_cli_salt_minion" -> Seconds(10)

\* The exception class named by the fixture's except clause.
HandledExc(k) ==
    IF k \in NonCliKinds THEN "SaltDaemonNotRunning" ELSE "TimedProcTimeoutError"

\* check_ports as wait_until_running builds it.
MinionCheckPorts == {"pytest_port"}
MasterCheckPorts == {"ret_port", "publish_port", "pytest_port"}
ConfiguredPorts(k) ==
    IF k \in CliMasterKinds THEN MasterCheckPorts
    ELSE IF k \in CliMinionKinds THEN MinionCheckPorts
    ELSE {}

\* Whether the branch of the fixture calls os.kill(pid, SIGTERM) before join().
\*   "retcode": wait_until_running returned a falsy value
\*   "except" : the except clause
\*   "else"   : is_alive() returned False
\*   "post"   : the code after the yield
HasKill(k, b) ==
    CASE b = "retcode" -> TRUE
      [] b = "except"  -> k # "session_cli_salt_master"
      [] b = "else"    -> k = "session_cli_salt_minion"
      [] b = "post"    -> TRUE

\* Whether os.kill sits in try/except OSError: pass.
KillGuarded(k, b) == k = "cli_salt_master" /\ b = "post"

\* Where control goes after pytest.skip(...): the call raises, the fixture ends.
SkipFallsThrough(b) == IF b = "else" THEN "done" ELSE "yielded"
AfterSkip(b) == "done"

\* The loop's exits.
ConnectableAlways(empty) == TRUE
ConnectableAt(empty) == empty

LateDeadline(c, u) == c > u + PollInterval
DeadlineReached(c, u) == c >= u

\* `if not retcode:` is not taken
AnyReturn(r) == r # "unset"
Truthy(r) == r = "True"

\* conn == 0 of connect_ex
RemoveOnRefused(isUp) == ~isUp
ConnOk(isUp) == isUp

VARIABLES
    kind,        \* which fixture runs
    pc,          \* position of the fixture (or of the test that holds the handle)
    branch,      \* which teardown branch is running
    proc,        \* "unstarted" | "running" | "zombie" (exited, not waited for) | "reaped"
    termIgnored, \* the daemon does not exit on SIGTERM
    sigterms,    \* SIGTERMs delivered to the running process of the handle
    stray,       \* SIGTERMs delivered to an unrelated process that got the pid
    pidReused,   \* the pid of the reaped process belongs to another process now
    up,          \* configured ports accepting connections right now
    waiter,      \* who called wait_until_running: "fixture" | "test"
    until,       \* deadline of the running call, None if timeout=None
    clock,       \* time since the running call was entered
    check_ports, \* pending ports of the running call
    todo,        \* ports the current for-pass has still to probe
    accepted,    \* ports whose connect_ex returned 0 during the running call
    openSocks,   \* probe sockets neither closed nor released
    sleepsDead,  \* sleeps completed in the running call since the process died (capped)
    retcode,     \* the fixture's retcode: "unset" | "True" | "False"
    result,      \* the last wait_until_running call: "unset" | "pending" | "True" | "False" | "raised"
    wurExc,      \* exception raised by the last wait_until_running call, or "none"
    aliveSeen,   \* the fixture's is_alive() returned True
    kills, joins, terminates,   \* calls made by the fixture, per handle
    rounds,      \* completed runs of the post-yield teardown sequence
    outcome,     \* how the fixture ended: "running" | "ok" | "skip" | an exception
    steady       \* every configured port has accepted connections since the running call was entered

\* The wrapper process of a CLI daemon (SaltCliScriptBase.run) and its child.
VARIABLES
    wrapper,     \* "none" | "forked" | "spawned" | "int_handler" | "communicate"
                 \* | "killed" | "interrupted" | "returned"
    child,       \* the daemon executable: "none" | "running" | "exited" | "reaped"
    received,    \* per signal: deliveries to the wrapper since the child was spawned
    forwarded,   \* per signal: os.kill(child pid, signum) calls made by _on_signal
    tripped      \* signals whose installed handler is marked to run

\* The log relay of one worker (pytest_log_handler.process_queue).
VARIABLES
    rpc,         \* "unstarted" | "start" | "connect" | "get" | "left" (loop left)
                 \* | "returned" | "died"
    queue,       \* the multiprocessing queue: records and None sentinels
    enqueued,    \* everything ever put on the queue, in order
    consumed,    \* the records queue.get() has returned, in order
    sent,        \* what sendall has written to the socket, in order
    logged,      \* log.warning calls of the except clause
    rsock,       \* "none" | "created" | "connected" | "closed"
    collector,   \* the collector accepts connections and reads
    rexit        \* why the thread stopped relaying: "none" | "sentinel" | "transport"
                 \* | "interrupt" | "connect"

\* One helper command of _salt_call.
VARIABLES
    hpc,         \* "idle" | "submitted" | "waiting" | "done"
    htimeout,    \* the timeout the job waits with
    hruntime,    \* how long the helper runs before it exits
    hrc,         \* the helper's return code
    hclock,      \* time the job has waited
    hresult,     \* what future.result() gives: "none" | "True" | "False" | "raised"
    hruns        \* helper processes spawned for the job

\* get_log_level_name applied to the verbosity of a handle.
VARIABLES
    verbosity,   \* the integer handed to get_log_level_name
    level        \* what it returned: "unset" | a level name | "None"

\* setup_handlers of one worker.
VARIABLES
    spc,         \* "idle" | "queue" | "handler" | "thread" | "daemon" | "started"
                 \* | "returned"
    daemon,      \* process_queue_thread.daemon
    threads      \* threads started with process_queue on the queue

fixVars == <<kind, pc, branch, proc, termIgnored, sigterms, stray, pidReused, up,
             waiter, until, clock, check_ports, todo, accepted, openSocks,
             sleepsDead, retcode, result, wurExc, aliveSeen, kills, joins,
             terminates, rounds, outcome, steady>>
wrapVars == <<wrapper, child, received, forwarded, tripped>>
relayVars == <<rpc, queue, enqueued, consumed, sent, logged, rsock, collector,
               rexit>>
callVars == <<hpc, htimeout, hruntime, hrc, hclock, hresult, hruns>>
levelVars == <<verbosity, level>>
setupVars == <<spc, daemon, threads>>

vars == <<fixVars, wrapVars, relayVars, callVars, levelVars, setupVars>>

procVars == <<proc, sigterms, stray, pidReused>>
waitVars == <<waiter, until, clock, check_ports, todo, accepted, openSocks,
              sleepsDead, wurExc>>
countVars == <<kills, joins, terminates, rounds>>

WaitPcs == {"loop", "probe"}

Signals == {"SIGINT", "SIGTERM"}

\* No wrapper, relay or helper command is looked at.
WrapIdle ==
    /\ wrapper = "none"
    /\ child = "none"
    /\ received = [s \in Signals |-> 0]
    /\ forwarded = [s \in Signals |-> 0]
    /\ tripped = {}

RelayIdle ==
    /\ rpc = "unstarted"
    /\ queue = <<>>
    /\ enqueued = <<>>
    /\ consumed = <<>>
    /\ sent = <<>>
    /\ logged = 0
    /\ rsock = "none"
    /\ collector = FALSE
    /\ rexit = "none"

CallIdle ==
    /\ hpc = "idle"
    /\ htimeout = 0
    /\ hruntime = 0
    /\ hrc = 0
    /\ hclock = 0
    /\ hresult = "none"
    /\ hruns = 0

LevelIdle ==
    /\ verbosity = 0
    /\ level = "unset"

SetupIdle ==
    /\ spc = "idle"
    /\ daemon = FALSE
    /\ threads = 0

\* A fixture that has not called start(): the state the wrapper, relay and
\* helper specifications leave untouched.
FixtureIdle ==
    /\ kind = "cli_salt_master"
    /\ termIgnored = FALSE
    /\ pc = "start"
    /\ branch = "none"
    /\ proc = "unstarted"
    /\ sigterms = 0
    /\ stray = 0
    /\ pidReused = FALSE
    /\ up = {}
    /\ waiter = "fixture"
    /\ until = None
    /\ clock = 0
    /\ check_ports = {}
    /\ todo = {}
    /\ accepted = {}
    /\ openSocks = 0
    /\ sleepsDead = 0
    /\ retcode = "unset"
    /\ result = "unset"
    /\ wurExc = "none"
    /\ aliveSeen = FALSE
    /\ kills = 0
    /\ joins = 0
    /\ terminates = 0
    /\ rounds = 0
    /\ outcome = "running"
    /\ steady = FALSE

Init ==
    /\ WrapIdle
    /\ RelayIdle
    /\ CallIdle
    /\ LevelIdle
    /\ SetupIdle
    /\ steady = FALSE
    /\ kind \in Kinds
    /\ termIgnored \in BOOLEAN
    /\ pc = "start"
    /\ branch = "none"
    /\ proc = "unstarted"
    /\ sigterms = 0
    /\ stray = 0
    /\ pidReused = FALSE
    /\ up = {}
    /\ waiter = "fixture"
    /\ until = None
    /\ clock = 0
    /\ check_ports = {}
    /\ todo = {}
    /\ accepted = {}
    /\ openSocks = 0
    /\ sleepsDead = 0
    /\ retcode = "unset"
    /\ result = "unset"
    /\ wurExc = "none"
    /\ aliveSeen = FALSE
    /\ kills = 0
    /\ joins = 0
    /\ terminates = 0
    /\ rounds = 0
    /\ outcome = "running"


\* ------------------------------------------------------------ the handle
\* waitpid(WNOHANG) as is_alive() does it through Popen.poll(): an exited
\* child is waited for, and its return code is known from then on.
Poll(p) == IF p = "zombie" THEN "reaped" ELSE p

\* First pc of a teardown branch.
BranchEntry(k, b) == IF HasKill(k, b) THEN "kill" ELSE "join"

\* master_process.start()
Start ==
    /\ pc = "start"
    /\ proc' = "running"
    /\ pc' = IF kind \in CliMinionKinds THEN "sleep" ELSE "is_alive"
    /\ UNCHANGED <<kind, branch, termIgnored, sigterms, stray, pidReused, up,
                   retcode, result, aliveSeen, outcome>>
    /\ UNCHANGED waitVars
    /\ UNCHANGED countVars
    /\ UNCHANGED steady
    /\ UNCHANGED <<wrapVars, relayVars, callVars, levelVars, setupVars>>

\* time.sleep(0.5) of the CLI minion fixtures ("Allow the subprocess to start")
StartupSleep ==
    /\ pc = "sleep"
    /\ pc' = "is_alive"
    /\ UNCHANGED <<kind, branch, termIgnored, up, retcode, result, aliveSeen,
                   outcome>>
    /\ UNCHANGED procVars
    /\ UNCHANGED waitVars
    /\ UNCHANGED countVars
    /\ UNCHANGED steady
    /\ UNCHANGED <<wrapVars, relayVars, callVars, levelVars, setupVars>>

\* if master_process.is_alive(): ... else: ...
FixtureIsAlive ==
    /\ pc = "is_alive"
    /\ proc' = Poll(proc)
    /\ IF proc = "running"
       THEN /\ aliveSeen' = TRUE
            /\ pc' = "wait"
            /\ branch' = branch
       ELSE /\ aliveSeen' = FALSE
            /\ branch' = "else"
            /\ pc' = BranchEntry(kind, "else")
    /\ UNCHANGED <<kind, termIgnored, sigterms, stray, pidReused, up, retcode,
                   result, outcome>>
    /\ UNCHANGED waitVars
    /\ UNCHANGED countVars
    /\ UNCHANGED steady
    /\ UNCHANGED <<wrapVars, relayVars, callVars, levelVars, setupVars>>

\* ------------------------------------------------------------ wait_until_running
\* Entry of the port-probing wait_until_running(timeout=t), up to `while True`.
EnterWait(w, t) ==
    /\ waiter' = w
    /\ until' = IF t = None THEN None ELSE t
    /\ clock' = 0
    /\ check_ports' = ConfiguredPorts(kind)
    /\ todo' = {}
    /\ accepted' = {}
    /\ openSocks' = 0
    /\ sleepsDead' = 0
    /\ wurExc' = "none"
    /\ result' = "pending"
    /\ steady' = (ConfiguredPorts(kind) \subseteq up)
    /\ pc' = "loop"

\* `return connectable`, to whoever called.
Return(v) ==
    /\ result' = IF v THEN "True" ELSE "False"
    /\ IF waiter = "fixture"
       THEN /\ retcode' = IF v THEN "True" ELSE "False"
            /\ pc' = "check"
       ELSE /\ retcode' = retcode
            /\ pc' = "yielded"

\* An exception leaving wait_until_running, to whoever called.
Raise(e) ==
    /\ wurExc' = e
    /\ result' = "raised"
    /\ pc' = IF waiter = "fixture" THEN "raised" ELSE "yielded"

\* retcode = master_process.wait_until_running(timeout=...) of a CLI fixture
FixtureWait ==
    /\ pc = "wait"
    /\ kind \in CliKinds
    /\ EnterWait("fixture", FixtureTimeout(kind))
    /\ UNCHANGED <<kind, branch, termIgnored, up, retcode, aliveSeen, outcome>>
    /\ UNCHANGED procVars
    /\ UNCHANGED countVars
    /\ UNCHANGED <<wrapVars, relayVars, callVars, levelVars, setupVars>>

\* SaltMinion.wait_until_running: sync_connect_master(timeout) then test.ping()
\* on the Minion object of the calling process.  It returns True, raises
\* SaltDaemonNotRunning, or re-raises whatever connect_master failed with.
\* A master fixture's minion connects to the fixture's own master process.
SaltMinionWait ==
    /\ pc = "wait"
    /\ kind \in NonCliKinds
    /\ \E r \in {"True", "SaltDaemonNotRunning", "Other"} :
         IF r = "True"
         THEN /\ kind \in {"salt_master", "session_salt_master"} => proc = "running"
              /\ retcode' = "True"
              /\ result' = "True"
              /\ wurExc' = "none"
              /\ pc' = "check"
         ELSE /\ wurExc' = r
              /\ result' = "raised"
              /\ retcode' = retcode
              /\ pc' = "raised"
    /\ UNCHANGED <<kind, branch, termIgnored, up, aliveSeen, outcome,
                   waiter, until, clock, check_ports, todo, accepted, openSocks,
                   sleepsDead>>
    /\ UNCHANGED procVars
    /\ UNCHANGED countVars
    /\ UNCHANGED steady
    /\ UNCHANGED <<wrapVars, relayVars, callVars, levelVars, setupVars>>

\* if not check_ports: connectable = True; break ... return connectable
WurReady ==
    /\ pc = "loop"
    /\ check_ports = {}
    /\ Return(ConnectableAt(TRUE))
    /\ UNCHANGED <<kind, branch, termIgnored, up, aliveSeen, outcome, waiter,
                   until, clock, check_ports, todo, accepted, openSocks,
                   sleepsDead, wurExc>>
    /\ UNCHANGED procVars
    /\ UNCHANGED countVars
    /\ UNCHANGED steady
    /\ UNCHANGED <<wrapVars, relayVars, callVars, levelVars, setupVars>>

\* if time.time() >= until: with timeout=None `until` was never assigned
WurUntilUnbound ==
    /\ pc = "loop"
    /\ check_ports # {}
    /\ until = None
    /\ Raise("UnboundLocalError")
    /\ UNCHANGED <<kind, branch, termIgnored, up, aliveSeen, outcome, waiter,
                   until, clock, check_ports, todo, accepted, openSocks,
                   sleepsDead, retcode>>
    /\ UNCHANGED procVars
    /\ UNCHANGED countVars
    /\ UNCHANGED steady
    /\ UNCHANGED <<wrapVars, relayVars, callVars, levelVars, setupVars>>

\* if time.time() >= until: break ... return connectable
WurDeadline ==
    /\ pc = "loop"
    /\ check_ports # {}
    /\ until # None
    /\ DeadlineReached(clock, until)
    /\ Return(ConnectableAt(FALSE))
    /\ UNCHANGED <<kind, branch, termIgnored, up, aliveSeen, outcome, waiter,
                   until, clock, check_ports, todo, accepted, openSocks,
                   sleepsDead, wurExc>>
    /\ UNCHANGED procVars
    /\ UNCHANGED countVars
    /\ UNCHANGED steady
    /\ UNCHANGED <<wrapVars, relayVars, callVars, levelVars, setupVars>>

\* for port in set(check_ports): the copy the pass iterates over
WurBeginPass ==
    /\ pc = "loop"
    /\ check_ports # {}
    /\ until # None
    /\ ~DeadlineReached(clock, until)
    /\ todo' = check_ports
    /\ pc' = "probe"
    /\ UNCHANGED <<kind, branch, termIgnored, up, aliveSeen, outcome, waiter,
                   until, clock, check_ports, accepted, openSocks, sleepsDead,
                   wurExc, retcode, result>>
    /\ UNCHANGED procVars
    /\ UNCHANGED countVars
    /\ UNCHANGED steady
    /\ UNCHANGED <<wrapVars, relayVars, callVars, levelVars, setupVars>>

\* conn = sock.connect_ex(...); conn == 0: remove, shutdown, close
ProbeConnected(p) ==
    /\ pc = "probe"
    /\ p \in todo
    /\ ConnOk(p \in up)
    /\ check_ports' = check_ports \ {p}
    /\ accepted' = IF p \in up THEN accepted \cup {p} ELSE accepted
    /\ todo' = todo \ {p}
    /\ UNCHANGED <<kind, pc, branch, termIgnored, up, aliveSeen, outcome, waiter,
                   until, clock, openSocks, sleepsDead, wurExc, retcode, result>>
    /\ UNCHANGED procVars
    /\ UNCHANGED countVars
    /\ UNCHANGED steady
    /\ UNCHANGED <<wrapVars, relayVars, callVars, levelVars, setupVars>>

\* conn == 0, the port is removed, and sock.shutdown(SHUT_RDWR) raises (the
\* peer has reset the connection): sock.close() is not reached.
ProbeShutdownRaises(p) ==
    /\ pc = "probe"
    /\ p \in todo
    /\ p \in up
    /\ ConnOk(p \in up)
    /\ check_ports' = check_ports \ {p}
    /\ accepted' = accepted \cup {p}
    /\ openSocks' = openSocks + 1
    /\ Raise("socket.error")
    /\ UNCHANGED <<kind, branch, termIgnored, up, aliveSeen, outcome, waiter,
                   until, clock, todo, sleepsDead, retcode>>
    /\ UNCHANGED procVars
    /\ UNCHANGED countVars
    /\ UNCHANGED steady
    /\ UNCHANGED <<wrapVars, relayVars, callVars, levelVars, setupVars>>

\* conn != 0: del sock
ProbeRefused(p) ==
    /\ pc = "probe"
    /\ p \in todo
    /\ ~ConnOk(p \in up)
    /\ todo' = todo \ {p}
    /\ UNCHANGED <<kind, pc, branch, termIgnored, up, aliveSeen, outcome, waiter,
                   until, clock, check_ports, accepted, openSocks, sleepsDead,
                   wurExc, retcode, result>>
    /\ UNCHANGED procVars
    /\ UNCHANGED countVars
    /\ UNCHANGED steady
    /\ UNCHANGED <<wrapVars, relayVars, callVars, levelVars, setupVars>>

\* time.sleep(0.125)
PollSleep ==
    /\ pc = "probe"
    /\ todo = {}
    /\ clock' = clock + PollInterval
    /\ sleepsDead' = IF proc # "running" /\ sleepsDead < 2
                     THEN sleepsDead + 1 ELSE sleepsDead
    /\ pc' = "loop"
    /\ UNCHANGED <<kind, branch, termIgnored, up, aliveSeen, outcome, waiter,
                   until, check_ports, todo, accepted, openSocks, wurExc,
                   retcode, result>>
    /\ UNCHANGED procVars
    /\ UNCHANGED countVars
    /\ UNCHANGED steady
    /\ UNCHANGED <<wrapVars, relayVars, callVars, levelVars, setupVars>>


\* ------------------------------------------------------------ the fixture's branches
\* if not retcode: <teardown>; pytest.skip(...)   /   log; yield master_process
CheckRetcode ==
    /\ pc = "check"
    /\ IF Truthy(retcode)
       THEN /\ pc' = "yielded"
            /\ branch' = branch
       ELSE /\ branch' = "retcode"
            /\ pc' = BranchEntry(kind, "retcode")
    /\ UNCHANGED <<kind, termIgnored, up, retcode, result, aliveSeen, outcome>>
    /\ UNCHANGED procVars
    /\ UNCHANGED waitVars
    /\ UNCHANGED countVars
    /\ UNCHANGED steady
    /\ UNCHANGED <<wrapVars, relayVars, callVars, levelVars, setupVars>>

\* except SaltDaemonNotRunning / except TimedProcTimeoutError
ExceptClause ==
    /\ pc = "raised"
    /\ wurExc = HandledExc(kind)
    /\ branch' = "except"
    /\ pc' = BranchEntry(kind, "except")
    /\ UNCHANGED <<kind, termIgnored, up, retcode, result, aliveSeen, outcome>>
    /\ UNCHANGED procVars
    /\ UNCHANGED waitVars
    /\ UNCHANGED countVars
    /\ UNCHANGED steady
    /\ UNCHANGED <<wrapVars, relayVars, callVars, levelVars, setupVars>>

\* Any other exception leaves the fixture: no clause catches it.
Propagate ==
    /\ pc = "raised"
    /\ wurExc # HandledExc(kind)
    /\ pc' = "done"
    /\ outcome' = wurExc
    /\ UNCHANGED <<kind, branch, termIgnored, up, retcode, result, aliveSeen>>
    /\ UNCHANGED procVars
    /\ UNCHANGED waitVars
    /\ UNCHANGED countVars
    /\ UNCHANGED steady
    /\ UNCHANGED <<wrapVars, relayVars, callVars, levelVars, setupVars>>

\* os.kill(master_process.pid, signal.SIGTERM) that does not raise: the
\* signal reaches the running process, is discarded by an exited process not
\* yet waited for, or reaches whatever process now has the pid.
OsKill ==
    /\ pc = "kill"
    /\ proc # "reaped" \/ pidReused
    /\ kills' = kills + 1
    /\ sigterms' = IF proc = "running" THEN sigterms + 1 ELSE sigterms
    /\ stray' = IF proc = "reaped" THEN stray + 1 ELSE stray
    /\ pc' = "join"
    /\ UNCHANGED <<kind, branch, termIgnored, up, retcode, result, aliveSeen,
                   outcome, proc, pidReused, joins, terminates, rounds>>
    /\ UNCHANGED waitVars
    /\ UNCHANGED steady
    /\ UNCHANGED <<wrapVars, relayVars, callVars, levelVars, setupVars>>

\* os.kill on a pid that no longer exists: OSError (ESRCH) leaves the fixture.
OsKillRaises ==
    /\ pc = "kill"
    /\ proc = "reaped" /\ ~pidReused
    /\ ~KillGuarded(kind, branch)
    /\ kills' = kills + 1
    /\ pc' = "done"
    /\ outcome' = "OSError"
    /\ UNCHANGED <<kind, branch, termIgnored, up, retcode, result, aliveSeen,
                   joins, terminates, rounds>>
    /\ UNCHANGED procVars
    /\ UNCHANGED waitVars
    /\ UNCHANGED steady
    /\ UNCHANGED <<wrapVars, relayVars, callVars, levelVars, setupVars>>

\* try: os.kill(...) except OSError: pass
OsKillSwallowed ==
    /\ pc = "kill"
    /\ proc = "reaped" /\ ~pidReused
    /\ KillGuarded(kind, branch)
    /\ kills' = kills + 1
    /\ pc' = "join"
    /\ UNCHANGED <<kind, branch, termIgnored, up, retcode, result, aliveSeen,
                   outcome, joins, terminates, rounds>>
    /\ UNCHANGED procVars
    /\ UNCHANGED waitVars
    /\ UNCHANGED steady
    /\ UNCHANGED <<wrapVars, relayVars, callVars, levelVars, setupVars>>

\* master_process.join(): no timeout argument, so it returns only once the
\* process has exited; it waits for the child.
Join ==
    /\ pc = "join"
    /\ proc # "running"
    /\ proc' = Poll(proc)
    /\ joins' = joins + 1
    /\ pc' = "terminate"
    /\ UNCHANGED <<kind, branch, termIgnored, up, retcode, result, aliveSeen,
                   outcome, sigterms, stray, pidReused, kills, terminates, rounds>>
    /\ UNCHANGED waitVars
    /\ UNCHANGED steady
    /\ UNCHANGED <<wrapVars, relayVars, callVars, levelVars, setupVars>>

\* master_process.terminate(): Popen.terminate sends SIGTERM only while the
\* return code is unknown.  Then pytest.skip(...) on a failure branch, the
\* end of the fixture after the yield.
Terminate ==
    /\ pc = "terminate"
    /\ terminates' = terminates + 1
    /\ sigterms' = IF proc = "running" THEN sigterms + 1 ELSE sigterms
    /\ IF branch = "post"
       THEN /\ pc' = "done"
            /\ outcome' = "ok"
            /\ rounds' = rounds + 1
       ELSE /\ pc' = "skip"
            /\ outcome' = outcome
            /\ rounds' = rounds
    /\ UNCHANGED <<kind, branch, termIgnored, up, retcode, result, aliveSeen,
                   proc, stray, pidReused, kills, joins>>
    /\ UNCHANGED waitVars
    /\ UNCHANGED steady
    /\ UNCHANGED <<wrapVars, relayVars, callVars, levelVars, setupVars>>

\* pytest.skip(...)
Skip ==
    /\ pc = "skip"
    /\ pc' = AfterSkip(branch)
    /\ outcome' = IF AfterSkip(branch) = "done" THEN "skip" ELSE outcome
    /\ UNCHANGED <<kind, branch, termIgnored, up, retcode, result, aliveSeen>>
    /\ UNCHANGED procVars
    /\ UNCHANGED waitVars
    /\ UNCHANGED countVars
    /\ UNCHANGED steady
    /\ UNCHANGED <<wrapVars, relayVars, callVars, levelVars, setupVars>>

\* ------------------------------------------------------------ the test that holds the handle
\* The scope ends: the code after the yield runs.
ScopeExit ==
    /\ pc = "yielded"
    /\ branch' = "post"
    /\ pc' = BranchEntry(kind, "post")
    /\ UNCHANGED <<kind, termIgnored, up, retcode, result, aliveSeen, outcome>>
    /\ UNCHANGED procVars
    /\ UNCHANGED waitVars
    /\ UNCHANGED countVars
    /\ UNCHANGED steady
    /\ UNCHANGED <<wrapVars, relayVars, callVars, levelVars, setupVars>>

\* The test (or any Process.start() of the run, through _cleanup()) polls the
\* handle: an exited process is waited for.
TestIsAlive ==
    /\ pc = "yielded"
    /\ proc = "zombie"
    /\ proc' = Poll(proc)
    /\ UNCHANGED <<kind, pc, branch, termIgnored, up, retcode, result, aliveSeen,
                   outcome, sigterms, stray, pidReused>>
    /\ UNCHANGED waitVars
    /\ UNCHANGED countVars
    /\ UNCHANGED steady
    /\ UNCHANGED <<wrapVars, relayVars, callVars, levelVars, setupVars>>

\* The test calls wait_until_running on the CLI handle itself, with the
\* default timeout=None or a number.
TestWait(t) ==
    /\ pc = "yielded"
    /\ kind \in CliKinds
    /\ EnterWait("test", t)
    /\ UNCHANGED <<kind, branch, termIgnored, up, retcode, aliveSeen, outcome>>
    /\ UNCHANGED procVars
    /\ UNCHANGED countVars
    /\ UNCHANGED <<wrapVars, relayVars, callVars, levelVars, setupVars>>

\* ------------------------------------------------------------ the environment
\* The daemon exits because of a SIGTERM it received.
ProcExitsOnTerm ==
    /\ proc = "running"
    /\ sigterms > 0
    /\ ~termIgnored
    /\ proc' = "zombie"
    /\ up' = {}
    /\ UNCHANGED <<kind, pc, branch, termIgnored, sigterms, stray, pidReused,
                   retcode, result, aliveSeen, outcome>>
    /\ UNCHANGED waitVars
    /\ UNCHANGED countVars
    /\ steady' = FALSE
    /\ UNCHANGED <<wrapVars, relayVars, callVars, levelVars, setupVars>>

\* The daemon exits on its own.
ProcCrashes ==
    /\ proc = "running"
    /\ pc # "done"
    /\ proc' = "zombie"
    /\ up' = {}
    /\ UNCHANGED <<kind, pc, branch, termIgnored, sigterms, stray, pidReused,
                   retcode, result, aliveSeen, outcome>>
    /\ UNCHANGED waitVars
    /\ UNCHANGED countVars
    /\ steady' = FALSE
    /\ UNCHANGED <<wrapVars, relayVars, callVars, levelVars, setupVars>>

\* The daemon starts listening on one of its ports.
PortUp(p) ==
    /\ proc = "running"
    /\ pc # "done"
    /\ p \in ConfiguredPorts(kind) \ up
    /\ up' = up \cup {p}
    /\ UNCHANGED <<kind, pc, branch, termIgnored, retcode, result, aliveSeen,
                   outcome>>
    /\ UNCHANGED procVars
    /\ UNCHANGED waitVars
    /\ UNCHANGED countVars
    /\ UNCHANGED steady
    /\ UNCHANGED <<wrapVars, relayVars, callVars, levelVars, setupVars>>

\* The daemon stops listening on one of its ports.
PortDown(p) ==
    /\ pc # "done"
    /\ p \in up
    /\ up' = up \ {p}
    /\ UNCHANGED <<kind, pc, branch, termIgnored, retcode, result, aliveSeen,
                   outcome>>
    /\ UNCHANGED procVars
    /\ UNCHANGED waitVars
    /\ UNCHANGED countVars
    /\ steady' = FALSE
    /\ UNCHANGED <<wrapVars, relayVars, callVars, levelVars, setupVars>>

\* The kernel hands the pid of the waited-for process to a new process.
PidReuse ==
    /\ proc = "reaped"
    /\ ~pidReused
    /\ pc # "done"
    /\ pidReused' = TRUE
    /\ UNCHANGED <<kind, pc, branch, termIgnored, up, retcode, result, aliveSeen,
                   outcome, proc, sigterms, stray>>
    /\ UNCHANGED waitVars
    /\ UNCHANGED countVars
    /\ UNCHANGED steady
    /\ UNCHANGED <<wrapVars, relayVars, callVars, levelVars, setupVars>>

\* ------------------------------------------------------------ specifications
CallerTimeouts == {None} \cup (0 .. MaxCallerTimeout)

FixtureStep ==
    \/ Start
    \/ StartupSleep
    \/ FixtureIsAlive
    \/ FixtureWait
    \/ SaltMinionWait
    \/ CheckRetcode
    \/ ExceptClause
    \/ Propagate
    \/ OsKill
    \/ OsKillRaises
    \/ OsKillSwallowed
    \/ Join
    \/ Terminate
    \/ Skip

WaitStep ==
    \/ WurReady
    \/ WurUntilUnbound
    \/ WurDeadline
    \/ WurBeginPass
    \/ \E p \in MasterCheckPorts : ProbeConnected(p)
    \/ \E p \in MasterCheckPorts : ProbeShutdownRaises(p)
    \/ \E p \in MasterCheckPorts : ProbeRefused(p)
    \/ PollSleep

TestStep ==
    \/ ScopeExit
    \/ TestIsAlive
    \/ \E t \in CallerTimeouts : TestWait(t)

EnvStep ==
    \/ ProcExitsOnTerm
    \/ ProcCrashes
    \/ \E p \in MasterCheckPorts : PortUp(p)
    \/ \E p \in MasterCheckPorts : PortDown(p)
    \/ PidReuse

Next == FixtureStep \/ WaitStep \/ TestStep \/ EnvStep

Spec == Init /\ [][Next]_vars

\* The fixture and the probe loop run on the calling thread and are not
\* suspended for ever; the kernel delivers a SIGTERM to a process that
\* handles it.  When the test ends, and whether the daemon exits on its own,
\* is up to them.
FairSpec ==
    /\ Spec
    /\ WF_vars(FixtureStep)
    /\ WF_vars(WaitStep)
    /\ WF_vars(ProcExitsOnTerm)


\* The post-yield teardown sequence (os.kill; join; terminate) run once more
\* on the handle whose teardown has completed.
TeardownAgain ==
    /\ pc = "done"
    /\ outcome = "ok"
    /\ rounds < MaxTeardowns
    /\ pc' = BranchEntry(kind, "post")
    /\ outcome' = "running"
    /\ UNCHANGED <<kind, branch, termIgnored, up, retcode, result, aliveSeen>>
    /\ UNCHANGED procVars
    /\ UNCHANGED waitVars
    /\ UNCHANGED countVars
    /\ UNCHANGED steady
    /\ UNCHANGED <<wrapVars, relayVars, callVars, levelVars, setupVars>>

NextTwice == Next \/ TeardownAgain

SpecTwice == Init /\ [][NextTwice]_vars

\* ------------------------------------------------------------ properties
Yielded == pc = "yielded" \/ (pc \in WaitPcs /\ waiter = "test") \/ branch = "post"
TeardownPcs == {"kill", "join", "terminate"}

\* C1: the handle is with the caller only after start() was called,
\* is_alive() returned True and the fixture's wait_until_running returned a
\* truthy value; never after it returned False or raised.
C1_YieldOnlyAfterReady ==
    Yielded => (proc # "unstarted" /\ aliveSeen /\ retcode = "True")

C1_Witness == pc = "yielded" /\ kind = "session_cli_salt_minion" /\ retcode = "True"

\* C2 (as claimed): whenever a fixture has ended after start(), SIGTERM,
\* join and terminate have been run on the handle and the process is not
\* alive any more.
C2_TeardownAlways ==
    pc = "done" => (kills >= 1 /\ joins >= 1 /\ terminates >= 1 /\ proc # "running")

\* C3 (as claimed): the post-yield teardown's os.kill / join / terminate
\* never raises, also when the process has exited and has been waited for
\* before the teardown runs.
C3_TeardownNeverRaises == branch = "post" => outcome # "OSError"

\* C4: in one run of a fixture os.kill, join() and terminate() are each
\* called at most once on the handle, and at most one SIGTERM is delivered.
C4_TeardownAtMostOnce ==
    /\ kills <= 1
    /\ joins <= 1
    /\ terminates <= 1
    /\ sigterms + stray <= 1

C4_Witness ==
    /\ pc = "done"
    /\ outcome = "skip"
    /\ branch = "retcode"
    /\ kills = 1 /\ joins = 1 /\ terminates = 1

\* C5 (as claimed): once a teardown has completed, running the sequence
\* again raises nothing and delivers no signal to any process.
C5_SecondTeardownHarmless ==
    [][rounds >= 1 =>
         (outcome' # "OSError" /\ sigterms' = sigterms /\ stray' = stray)]_vars

\* C6 (as claimed): a teardown that has begun completes, with the process
\* dead, also when the daemon does not exit on SIGTERM.
C6_TeardownCompletes ==
    (pc \in TeardownPcs) ~> (pc = "done" /\ proc # "running")

\* C7 (as claimed): while the fixture's port-probing wait runs, no more than
\* one poll interval passes with the process dead.
C7_DeathDetected ==
    (kind \in CliKinds /\ waiter = "fixture" /\ pc \in WaitPcs) => sleepsDead <= 1

\* While and after a port-probing call with a numeric timeout runs: the loop
\* is not entered at or after the deadline, True is returned only with no
\* port pending, False at the first iteration at or after the deadline, and
\* an exception leaves the call only before the deadline.
BoundedWait ==
    (kind \in CliKinds /\ until # None) =>
        /\ pc \in WaitPcs => clock < until + PollInterval
        /\ pc = "probe" => clock < until
        /\ result = "True" => check_ports = {}
        /\ result = "False" =>
              (check_ports # {} /\ until <= clock /\ clock < until + PollInterval)
        /\ result = "raised" => clock < until

C9_DefaultTimeoutReturns ==
    (kind \in CliKinds /\ until = None) => result # "raised"

\* C10 (as claimed): at the moment wait_until_running returns True every
\* configured port accepts connections.
C10_ReadyMeansAllUp ==
    [][(kind \in CliKinds /\ result = "pending" /\ result' = "True")
          => ConfiguredPorts(kind) \subseteq up']_vars

\* C10 (amended): wait_until_running returns True if and only if every
\* configured port accepted a probe connection at some moment of the call.
C10_ReadyIffAllAccepted ==
    (kind \in CliKinds /\ result \in {"True", "False"}) =>
        (result = "True" <=> accepted = ConfiguredPorts(kind))

C10_Witness ==
    /\ kind \in CliMasterKinds
    /\ pc = "check"
    /\ result = "True"
    /\ ~(ConfiguredPorts(kind) \subseteq up)
    /\ proc = "running"


(***************************************************************************)
(* SaltCliScriptBase.run: the wrapper process of a CLI daemon.  It spawns   *)
(* the daemon executable (Popen), installs the SIGINT handler, installs     *)
(* the SIGTERM handler, then blocks in communicate() until the child exits. *)
(* A signal may be delivered to the wrapper between any two of these steps. *)
(***************************************************************************)
MaxSignals == 3

SignalsDelivered == received["SIGINT"] + received["SIGTERM"]

\* The handlers that run() has installed so far.
Handled(w) ==
    CASE w = "int_handler" -> {"SIGINT"}
      [] w = "communicate" -> {"SIGINT", "SIGTERM"}
      [] OTHER -> {}

WrapperLive == wrapper \in {"spawned", "int_handler", "communicate"}

InitSignal ==
    /\ FixtureIdle
    /\ RelayIdle
    /\ CallIdle
    /\ LevelIdle
    /\ SetupIdle
    /\ wrapper = "forked"
    /\ child = "none"
    /\ received = [s \in Signals |-> 0]
    /\ forwarded = [s \in Signals |-> 0]
    /\ tripped = {}

Popen ==
    /\ wrapper = "forked"
    /\ wrapper' = "spawned"
    /\ child' = "running"
    /\ UNCHANGED <<received, forwarded, tripped>>
    /\ UNCHANGED <<fixVars, relayVars, callVars, levelVars, setupVars>>

InstallSigint ==
    /\ wrapper = "spawned"
    /\ wrapper' = "int_handler"
    /\ UNCHANGED <<child, received, forwarded, tripped>>
    /\ UNCHANGED <<fixVars, relayVars, callVars, levelVars, setupVars>>

\* A tripped handler runs before the interpreter goes on to the next statement.
InstallSigterm ==
    /\ wrapper = "int_handler"
    /\ tripped = {}
    /\ wrapper' = "communicate"
    /\ UNCHANGED <<child, received, forwarded, tripped>>
    /\ UNCHANGED <<fixVars, relayVars, callVars, levelVars, setupVars>>

\* A signal whose handler run() has installed arrives: the interpreter marks
\* the handler as tripped (a mark, not a count) and runs it later.
Trip(s) ==
    /\ WrapperLive
    /\ SignalsDelivered < MaxSignals
    /\ s \in Handled(wrapper)
    /\ received' = [received EXCEPT ![s] = @ + 1]
    /\ tripped' = tripped \cup {s}
    /\ UNCHANGED <<wrapper, child, forwarded>>
    /\ UNCHANGED <<fixVars, relayVars, callVars, levelVars, setupVars>>

\* _on_signal: the handler sends the same signal to the child's pid (the
\* child is running or, until communicate() reaps it, a zombie).
OnSignal(s) ==
    /\ WrapperLive
    /\ s \in tripped
    /\ forwarded' = [forwarded EXCEPT ![s] = @ + 1]
    /\ tripped' = tripped \ {s}
    /\ UNCHANGED <<wrapper, child, received>>
    /\ UNCHANGED <<fixVars, relayVars, callVars, levelVars, setupVars>>

\* No handler of run() is installed for s yet: SIGTERM takes its default
\* action and ends the wrapper; SIGINT raises KeyboardInterrupt in run().
\* Neither path sends anything to the child.
DefaultDisposition(s) ==
    /\ WrapperLive
    /\ SignalsDelivered < MaxSignals
    /\ s \notin Handled(wrapper)
    /\ received' = [received EXCEPT ![s] = @ + 1]
    /\ wrapper' = IF s = "SIGTERM" THEN "killed" ELSE "interrupted"
    /\ UNCHANGED <<child, forwarded, tripped>>
    /\ UNCHANGED <<fixVars, relayVars, callVars, levelVars, setupVars>>

ChildExits ==
    /\ child = "running"
    /\ child' = "exited"
    /\ UNCHANGED <<wrapper, received, forwarded, tripped>>
    /\ UNCHANGED <<fixVars, relayVars, callVars, levelVars, setupVars>>

CommunicateReturns ==
    /\ wrapper = "communicate"
    /\ child = "exited"
    /\ tripped = {}
    /\ wrapper' = "returned"
    /\ child' = "reaped"
    /\ UNCHANGED <<received, forwarded, tripped>>
    /\ UNCHANGED <<fixVars, relayVars, callVars, levelVars, setupVars>>

NextSignal ==
    \/ Popen
    \/ InstallSigint
    \/ InstallSigterm
    \/ \E s \in Signals : Trip(s)
    \/ \E s \in Signals : OnSignal(s)
    \/ \E s \in Signals : DefaultDisposition(s)
    \/ ChildExits
    \/ CommunicateReturns

SpecSignal == InitSignal /\ [][NextSignal]_vars

(***************************************************************************)
(* pytest_log_handler.process_queue: the relay thread of one worker.  It    *)
(* creates a socket, connects to the collector, then loops: take an item    *)
(* from the queue, stop on the None sentinel, otherwise prefix the record's *)
(* msg, encode the record and write it to the socket.                       *)
(***************************************************************************)
MaxRecords == 4

Prefix == "pytest_log_prefix"

\* record.msg is a string and the record encodes, or prefix + msg raises
\* TypeError ("not_str"), or msgpack.dumps raises on the record ("unpackable").
Shapes == {"str", "not_str", "unpackable"}

LogRecord(i, sh) == [id |-> i, shape |-> sh, msg |-> <<"msg">>]

Sentinel(i) == [id |-> i, shape |-> "None", msg |-> <<>>]

IsSentinel(x) == x.shape = "None"

WellFormed(r) == r.shape = "str"

NotPrefixed(r) == r

\* record_dict['msg'] = prefix + record_dict['msg']
Prefixed(r) == [r EXCEPT !.msg = <<Prefix>> \o @]

\* msgpack.dumps(record_dict, encoding='utf-8')
Encode(d) == [msgpack |-> d]

RestSkips(q) == IF Len(q) > 1 THEN Tail(Tail(q)) ELSE Tail(q)

\* What queue.get() leaves on the queue.
Rest(q) == Tail(q)

OtherExceptionBreaks == "left"

\* except Exception: log.warning(...) and the while loop goes round again.
AfterOtherException == "get"

\* setup_handlers has returned the handler.
SetupDone ==
    /\ spc = "returned"
    /\ daemon = TRUE
    /\ threads = 1

InitRelay ==
    /\ FixtureIdle
    /\ WrapIdle
    /\ CallIdle
    /\ LevelIdle
    /\ SetupDone
    /\ rpc = "start"
    /\ queue = <<>>
    /\ enqueued = <<>>
    /\ consumed = <<>>
    /\ sent = <<>>
    /\ logged = 0
    /\ rsock = "none"
    /\ collector \in BOOLEAN
    /\ rexit = "none"

\* The worker logs a record through the QueueHandler.
Emit(sh) ==
    /\ spc = "returned"
    /\ Len(enqueued) < MaxRecords
    /\ LET r == LogRecord(Len(enqueued) + 1, sh)
       IN /\ queue' = Append(queue, r)
          /\ enqueued' = Append(enqueued, r)
    /\ UNCHANGED <<rpc, consumed, sent, logged, rsock, collector, rexit>>
    /\ UNCHANGED <<fixVars, wrapVars, callVars, levelVars, setupVars>>

\* The queue is reachable only through the returned handler (handler.queue).
PutSentinel ==
    /\ spc = "returned"
    /\ Len(enqueued) < MaxRecords
    /\ LET r == Sentinel(Len(enqueued) + 1)
       IN /\ queue' = Append(queue, r)
          /\ enqueued' = Append(enqueued, r)
    /\ UNCHANGED <<rpc, consumed, sent, logged, rsock, collector, rexit>>
    /\ UNCHANGED <<fixVars, wrapVars, callVars, levelVars, setupVars>>

\* The collector stops listening, or the established connection is lost.
CollectorDown ==
    /\ collector
    /\ collector' = FALSE
    /\ UNCHANGED <<rpc, queue, enqueued, consumed, sent, logged, rsock, rexit>>
    /\ UNCHANGED <<fixVars, wrapVars, callVars, levelVars, setupVars>>

CreateSocket ==
    /\ rpc = "start"
    /\ rsock' = "created"
    /\ rpc' = "connect"
    /\ UNCHANGED <<queue, enqueued, consumed, sent, logged, collector, rexit>>
    /\ UNCHANGED <<fixVars, wrapVars, callVars, levelVars, setupVars>>

Connect ==
    /\ rpc = "connect"
    /\ collector
    /\ rsock' = "connected"
    /\ rpc' = "get"
    /\ UNCHANGED <<queue, enqueued, consumed, sent, logged, collector, rexit>>
    /\ UNCHANGED <<fixVars, wrapVars, callVars, levelVars, setupVars>>

\* sock.connect stands before the loop and outside its try: the socket.error
\* leaves process_queue and ends the thread with a traceback.
ConnectRefused ==
    /\ rpc = "connect"
    /\ ~collector
    /\ rpc' = "died"
    /\ rexit' = "connect"
    /\ UNCHANGED <<queue, enqueued, consumed, sent, logged, rsock, collector>>
    /\ UNCHANGED <<fixVars, wrapVars, callVars, levelVars, setupVars>>

GetSentinel ==
    /\ rpc = "get"
    /\ queue # <<>>
    /\ IsSentinel(Head(queue))
    /\ queue' = Rest(queue)
    /\ rpc' = "left"
    /\ rexit' = "sentinel"
    /\ UNCHANGED <<enqueued, consumed, sent, logged, rsock, collector>>
    /\ UNCHANGED <<fixVars, wrapVars, callVars, levelVars, setupVars>>

\* With the connection lost a write may still be accepted locally.
Forward ==
    /\ rpc = "get"
    /\ queue # <<>>
    /\ ~IsSentinel(Head(queue))
    /\ WellFormed(Head(queue))
    /\ queue' = Rest(queue)
    /\ consumed' = Append(consumed, Head(queue))
    /\ sent' = Append(sent, Encode(Prefixed(Head(queue))))
    /\ UNCHANGED <<rpc, enqueued, logged, rsock, collector, rexit>>
    /\ UNCHANGED <<fixVars, wrapVars, callVars, levelVars, setupVars>>

\* sendall raises socket.error (an IOError): break.
SendFails ==
    /\ rpc = "get"
    /\ queue # <<>>
    /\ ~IsSentinel(Head(queue))
    /\ WellFormed(Head(queue))
    /\ ~collector
    /\ queue' = Rest(queue)
    /\ consumed' = Append(consumed, Head(queue))
    /\ rpc' = "left"
    /\ rexit' = "transport"
    /\ UNCHANGED <<enqueued, sent, logged, rsock, collector>>
    /\ UNCHANGED <<fixVars, wrapVars, callVars, levelVars, setupVars>>

\* Prefixing or encoding raises: the broad except clause logs and goes on.
Malformed ==
    /\ rpc = "get"
    /\ queue # <<>>
    /\ ~IsSentinel(Head(queue))
    /\ ~WellFormed(Head(queue))
    /\ queue' = Rest(queue)
    /\ consumed' = Append(consumed, Head(queue))
    /\ logged' = logged + 1
    /\ rpc' = AfterOtherException
    /\ UNCHANGED <<enqueued, sent, rsock, collector, rexit>>
    /\ UNCHANGED <<fixVars, wrapVars, callVars, levelVars, setupVars>>

\* queue.get() itself raises EOFError/IOError, or KeyboardInterrupt/SystemExit
\* is raised while the thread waits: break, no record in hand.
GetInterrupted ==
    /\ rpc = "get"
    /\ rpc' = "left"
    /\ rexit' = "interrupt"
    /\ UNCHANGED <<queue, enqueued, consumed, sent, logged, rsock, collector>>
    /\ UNCHANGED <<fixVars, wrapVars, callVars, levelVars, setupVars>>

\* Nothing follows the loop: process_queue returns; it has not called close().
ProcessQueueReturns ==
    /\ rpc = "left"
    /\ rpc' = "returned"
    /\ UNCHANGED <<queue, enqueued, consumed, sent, logged, rsock, collector, rexit>>
    /\ UNCHANGED <<fixVars, wrapVars, callVars, levelVars, setupVars>>

\* The interpreter reclaims the unreferenced socket object at a time of its
\* own choosing (at once, at a later collection, or at process exit).
Reclaim ==
    /\ rpc \in {"returned", "died"}
    /\ rsock \in {"created", "connected"}
    /\ rsock' = "closed"
    /\ UNCHANGED <<rpc, queue, enqueued, consumed, sent, logged, collector, rexit>>
    /\ UNCHANGED <<fixVars, wrapVars, callVars, levelVars, setupVars>>

NextRelay ==
    \/ \E sh \in Shapes : Emit(sh)
    \/ PutSentinel
    \/ CollectorDown
    \/ CreateSocket
    \/ Connect
    \/ ConnectRefused
    \/ GetSentinel
    \/ Forward
    \/ SendFails
    \/ Malformed
    \/ GetInterrupted
    \/ ProcessQueueReturns
    \/ Reclaim

SpecRelay == InitRelay /\ [][NextRelay]_vars

\* The items put on the queue before the first sentinel.
RECURSIVE BeforeSentinel(_)
BeforeSentinel(q) ==
    IF q = <<>> \/ IsSentinel(Head(q)) THEN <<>>
    ELSE <<Head(q)>> \o BeforeSentinel(Tail(q))

\* The message the collector is to read for record r.
Wire(r) == [msgpack |-> [id |-> r.id, shape |-> r.shape, msg |-> <<Prefix>> \o r.msg]]

WireAll(q) == [i \in 1..Len(q) |-> Wire(q[i])]

(***************************************************************************)
(* SaltCliMinion._salt_call: one helper command (salt-call) submitted to    *)
(* the handle's thread pool by ping_master or sync.  Time is in seconds.    *)
(* The job spawns the helper (TimedProc), waits for it with the timeout     *)
(* and turns the outcome into a boolean.                                    *)
(***************************************************************************)
MaxHelperTimeout == 3
MaxHelperRuntime == 6
MaxReturnCode == 2

\* ping_master(timeout=5), sync(timeout=5), kwargs.pop('timeout', 5)
DefaultHelperTimeout == 5

HelperTimeouts == (1..MaxHelperTimeout) \cup {DefaultHelperTimeout}

AnyRc(rc) == TRUE

\* proc.process.returncode == 0
RcOk(rc) == rc = 0

\* except TimedProcTimeoutError: return False
OnTimeout == "False"

Bool(b) == IF b THEN "True" ELSE "False"

InitCall ==
    /\ FixtureIdle
    /\ WrapIdle
    /\ RelayIdle
    /\ LevelIdle
    /\ SetupIdle
    /\ hpc = "idle"
    /\ htimeout \in HelperTimeouts
    /\ hruntime \in 1..MaxHelperRuntime
    /\ hrc \in 0..MaxReturnCode
    /\ hclock = 0
    /\ hresult = "none"
    /\ hruns = 0

\* self.executor.submit(_executor_run, *args, **kwargs)
Submit ==
    /\ hpc = "idle"
    /\ hpc' = "submitted"
    /\ UNCHANGED <<htimeout, hruntime, hrc, hclock, hresult, hruns>>
    /\ UNCHANGED <<fixVars, wrapVars, relayVars, levelVars, setupVars>>

\* A pool thread runs the job: TimedProc(proc_args, with_communicate=True)
\* spawns the helper, then proc.wait(timeout) starts.
SpawnHelper ==
    /\ hpc = "submitted"
    /\ hpc' = "waiting"
    /\ hruns' = hruns + 1
    /\ UNCHANGED <<htimeout, hruntime, hrc, hclock, hresult>>
    /\ UNCHANGED <<fixVars, wrapVars, relayVars, levelVars, setupVars>>

\* The helper cannot be spawned (no salt-call script): the OSError is raised
\* outside the try and future.result() re-raises it.
SpawnFails ==
    /\ hpc = "submitted"
    /\ hpc' = "done"
    /\ hresult' = "raised"
    /\ UNCHANGED <<htimeout, hruntime, hrc, hclock, hruns>>
    /\ UNCHANGED <<fixVars, wrapVars, relayVars, levelVars, setupVars>>

\* A second passes: the helper is still running and the wait has not expired.
HelperTick ==
    /\ hpc = "waiting"
    /\ hclock < hruntime
    /\ hclock < htimeout
    /\ hclock' = hclock + 1
    /\ UNCHANGED <<hpc, htimeout, hruntime, hrc, hresult, hruns>>
    /\ UNCHANGED <<fixVars, wrapVars, relayVars, levelVars, setupVars>>

\* The helper has exited before the wait gave up on it: wait returns and the
\* job returns returncode == 0.
WaitReturns ==
    /\ hpc = "waiting"
    /\ hclock = hruntime
    /\ hclock <= htimeout
    /\ hresult' = Bool(RcOk(hrc))
    /\ hpc' = "done"
    /\ UNCHANGED <<htimeout, hruntime, hrc, hclock, hruns>>
    /\ UNCHANGED <<fixVars, wrapVars, relayVars, levelVars, setupVars>>

\* The wait expires with the helper not seen to have exited (at the very
\* second of the exit either may happen): TimedProcTimeoutError is raised
\* and the except clause returns False.
WaitTimesOut ==
    /\ hpc = "waiting"
    /\ hclock = htimeout
    /\ hclock <= hruntime
    /\ hresult' = OnTimeout
    /\ hpc' = "done"
    /\ UNCHANGED <<htimeout, hruntime, hrc, hclock, hruns>>
    /\ UNCHANGED <<fixVars, wrapVars, relayVars, levelVars, setupVars>>

NextCall ==
    \/ Submit
    \/ SpawnHelper
    \/ SpawnFails
    \/ HelperTick
    \/ WaitReturns
    \/ WaitTimesOut

SpecCall == InitCall /\ [][NextCall]_vars

(***************************************************************************)
(* get_log_level_name: the CLI logging level name for a pytest verbosity.   *)
(***************************************************************************)
MaxVerbosity == 30

HANDLED_LEVELS ==
    (2 :> "warning") @@ (3 :> "info") @@ (4 :> "debug") @@ (5 :> "trace")
        @@ (6 :> "garbage")

\* dict.get(k, default); get(k) alone has the default None.
DictGet(d, k, default) == IF k \in DOMAIN d THEN d[k] ELSE default

OrOnly(a, b, c) == c

\* `a and b or c` for a boolean a and integers b, c
AndOr(a, b, c) == IF a /\ b # 0 THEN b ELSE c

get_log_level_name(v) ==
    DictGet(HANDLED_LEVELS, v,
            DictGet(HANDLED_LEVELS, AndOr(v > 6, 6, 2), "None"))

InitLevel ==
    /\ FixtureIdle
    /\ WrapIdle
    /\ RelayIdle
    /\ CallIdle
    /\ SetupIdle
    /\ verbosity \in (0 - MaxVerbosity)..MaxVerbosity
    /\ level = "unset"

\* '-l', get_log_level_name(self.verbosity)
GetLogLevelName ==
    /\ level = "unset"
    /\ level' = get_log_level_name(verbosity)
    /\ UNCHANGED verbosity
    /\ UNCHANGED <<fixVars, wrapVars, relayVars, callVars, setupVars>>

NextLevel == GetLogLevelName

SpecLevel == InitLevel /\ [][NextLevel]_vars

(***************************************************************************)
(* pytest_log_handler.setup_handlers: creates the queue, the QueueHandler   *)
(* and the thread that runs process_queue on the queue, marks the thread    *)
(* as daemon, starts it and returns the handler.  The worker can log        *)
(* through the handler once it has been returned; the started thread runs   *)
(* process_queue concurrently with the rest of setup_handlers.              *)
(***************************************************************************)
NotDaemon == FALSE

\* process_queue_thread.daemon = True
DaemonFlag == TRUE

InitSetup ==
    /\ FixtureIdle
    /\ WrapIdle
    /\ CallIdle
    /\ LevelIdle
    /\ SetupIdle
    /\ rpc = "unstarted"
    /\ queue = <<>>
    /\ enqueued = <<>>
    /\ consumed = <<>>
    /\ sent = <<>>
    /\ logged = 0
    /\ rsock = "none"
    /\ collector \in BOOLEAN
    /\ rexit = "none"

\* queue = Queue()
CreateQueue ==
    /\ spc = "idle"
    /\ spc' = "queue"
    /\ UNCHANGED <<daemon, threads>>
    /\ UNCHANGED <<fixVars, wrapVars, relayVars, callVars, levelVars>>

\* handler = salt.log.setup.QueueHandler(queue); handler.setLevel(1)
CreateHandler ==
    /\ spc = "queue"
    /\ spc' = "handler"
    /\ UNCHANGED <<daemon, threads>>
    /\ UNCHANGED <<fixVars, wrapVars, relayVars, callVars, levelVars>>

\* threading.Thread(target=process_queue, args=(port, prefix, queue))
CreateThread ==
    /\ spc = "handler"
    /\ spc' = "thread"
    /\ daemon' = FALSE
    /\ UNCHANGED threads
    /\ UNCHANGED <<fixVars, wrapVars, relayVars, callVars, levelVars>>

SetDaemon ==
    /\ spc = "thread"
    /\ spc' = "daemon"
    /\ daemon' = DaemonFlag
    /\ UNCHANGED threads
    /\ UNCHANGED <<fixVars, wrapVars, relayVars, callVars, levelVars>>

\* process_queue_thread.start(): process_queue is entered by the new thread.
StartThread ==
    /\ spc = "daemon"
    /\ spc' = "started"
    /\ threads' = threads + 1
    /\ rpc' = "start"
    /\ UNCHANGED daemon
    /\ UNCHANGED <<queue, enqueued, consumed, sent, logged, rsock, collector, rexit>>
    /\ UNCHANGED <<fixVars, wrapVars, callVars, levelVars>>

\* return handler
ReturnHandler ==
    /\ spc = "started"
    /\ spc' = "returned"
    /\ UNCHANGED <<daemon, threads>>
    /\ UNCHANGED <<fixVars, wrapVars, relayVars, callVars, levelVars>>

NextSetup ==
    \/ CreateQueue
    \/ CreateHandler
    \/ CreateThread
    \/ SetDaemon
    \/ StartThread
    \/ ReturnHandler
    \/ NextRelay

SpecSetup == InitSetup /\ [][NextSetup]_vars

\* C11 (as claimed): once the fixture's wait_until_running has returned True,
\* a further call by the test, whatever its timeout, during which every
\* configured port accepts connections throughout, returns True.
C11_RequeryStillReady ==
    (waiter = "test" /\ retcode = "True" /\ steady /\ result # "pending")
        => result = "True"

\* C12 (as claimed): when a port-probing call has ended, by a return or by an
\* exception, no socket it opened is left unclosed.
C12_ProbeSocketsClosed == pc \notin WaitPcs => openSocks = 0

\* C14 (as claimed): a fixture that ends on a start failure (process not
\* alive after start(), falsy retcode, the exception its except clause
\* names) ends with the skip outcome and no other exception.
C14_StartFailureSkips ==
    (pc = "done" /\ branch \in {"else", "retcode", "except"}) => outcome = "skip"


\* C13 (as claimed): every SIGINT or SIGTERM delivered to the wrapper after
\* the child was spawned has been re-delivered to the child's pid, a signal
\* arriving between Popen and the installation of the handlers included.
\* (Read generously: a delivered signal whose handler is not waiting to run has
\* been sent on to the child at least once.)
C13_SignalsRedelivered ==
    \A s \in Signals : (received[s] > 0 /\ s \notin tripped) => forwarded[s] > 0


\* C15: when the loop was left for the sentinel and every record put on the
\* queue before the first sentinel was well-formed, the socket has been
\* written exactly those N records, in the order they were enqueued, each
\* as the encoding of the record with the prefix prepended once to msg; the
\* sentinel and whatever was enqueued after it were not forwarded.
C15_SentinelProtocol ==
    LET B == BeforeSentinel(enqueued)
    IN (rexit = "sentinel" /\ \A i \in 1..Len(B) : B[i].shape = "str")
           => sent = WireAll(B)

C15_Witness ==
    /\ rexit = "sentinel"
    /\ Len(sent) = 2
    /\ Len(BeforeSentinel(enqueued)) = 2
    /\ Len(queue) = 1

\* C16 (as claimed): while the loop is running, every record taken from the
\* queue has been written to the socket.
C16_NoRecordDiscarded == rpc = "get" => Len(sent) = Len(consumed)

\* The records the loop has finished with: all it took, less the one in
\* hand when a failed write ended the loop.
Finished ==
    IF rexit = "transport" THEN SubSeq(consumed, 1, Len(consumed) - 1)
    ELSE consumed

\* C16 (amended): every item put on the queue is still on it or was taken by
\* the relay; every record taken was written to the socket, or was logged
\* locally and dropped because prefixing or encoding it raised, or is the one
\* record in hand when a failed write ended the loop.
C16_ConsumedAccounted ==
    /\ Len(enqueued) = Len(queue) + Len(consumed)
                         + (IF rexit = "sentinel" THEN 1 ELSE 0)
    /\ sent = WireAll(SelectSeq(Finished, LAMBDA r : r.shape = "str"))
    /\ logged = Len(SelectSeq(Finished, LAMBDA r : r.shape # "str"))
    /\ rexit = "transport" => consumed[Len(consumed)].shape = "str"

C16_Witness ==
    /\ rpc = "get"
    /\ Len(consumed) = 3
    /\ consumed[1].shape = "not_str"
    /\ consumed[2].shape = "str"
    /\ consumed[3].shape = "unpackable"
    /\ Len(sent) = 1
    /\ logged = 2

\* C17 (as claimed): no connection error of the relay socket, the initial
\* connect included, propagates out of the relay thread.
C17_TransportFailuresSilent == rpc # "died"

\* C18: a record whose prefixing or encoding raises does not stop the relay:
\* after it the loop is still running unless a sentinel, a transport error or
\* an interrupt ended it, and when the sentinel ends it every well-formed
\* record enqueued before the sentinel has been forwarded, in order.
C18_MalformedDoesNotStop ==
    /\ (logged > 0 /\ rexit = "none") => rpc = "get"
    /\ rexit = "sentinel"
           => sent = WireAll(SelectSeq(BeforeSentinel(enqueued),
                                       LAMBDA r : r.shape = "str"))

C18_Witness ==
    /\ rexit = "sentinel"
    /\ logged = 1
    /\ Len(enqueued) = 4
    /\ enqueued[1].shape = "str"
    /\ enqueued[2].shape \in {"not_str", "unpackable"}
    /\ enqueued[3].shape = "str"
    /\ Len(sent) = 2

\* C19 (as claimed): once process_queue has left its loop for a sentinel or
\* a transport error and returned, the connection to the collector has been
\* closed.
C19_SocketClosedAfterLoop ==
    (rpc = "returned" /\ rexit \in {"sentinel", "transport"}) => rsock = "closed"


\* C20: a helper command that was run yields True or False, never an
\* exception: True only if the helper exited with return code 0 no later
\* than its timeout, True whenever it exited with 0 before the timeout,
\* False whenever it exited nonzero, False whenever the wait expired first;
\* and the job runs the helper once, never again.
C20_HelperResult ==
    /\ hruns <= 1
    /\ (hpc = "done" /\ hruns = 1) =>
          /\ hresult \in {"True", "False"}
          /\ hresult = "True" => (hrc = 0 /\ hruntime <= htimeout)
          /\ (hrc = 0 /\ hruntime < htimeout) => hresult = "True"
          /\ hrc # 0 => hresult = "False"
          /\ hruntime > htimeout => hresult = "False"

C20_Witness ==
    /\ hpc = "done"
    /\ hruns = 1
    /\ hresult = "False"
    /\ hrc = 0
    /\ htimeout = DefaultHelperTimeout
    /\ hruntime > htimeout


\* C21 (as claimed): when the helper invocation of the ping readiness check
\* times out, another helper invocation is issued before failure is reported.
C21_PingRetriesOnTimeout ==
    (hpc = "done" /\ hresult = "False" /\ hruntime > htimeout) => hruns > 1


\* C22: get_log_level_name maps 2 to warning, 3 to info, 4 to debug, 5 to
\* trace, 6 to garbage, every integer above 6 to garbage and every integer
\* of 1 or less to warning; it never returns None.
C22_LevelNameTotal ==
    level # "unset" =>
        /\ level # "None"
        /\ level = CASE verbosity <= 2 -> "warning"
                     [] verbosity = 3 -> "info"
                     [] verbosity = 4 -> "debug"
                     [] verbosity = 5 -> "trace"
                     [] verbosity >= 6 -> "garbage"

C22_Witness == verbosity > 6 /\ level = "garbage"


\* C23 (as claimed): on the branch taken when is_alive() returned False after
\* start(), the fixture makes no os.kill call on the handle's pid.
C23_NoKillAfterNotAlive == branch = "else" => kills = 0


\* In a running call the pending set is the configured ports less those that
\* accepted a probe, and the current pass probes pending ports only.
PendingIsUnaccepted ==
    pc \in WaitPcs =>
        /\ check_ports = ConfiguredPorts(kind) \ accepted
        /\ todo \subseteq check_ports

\* A call that returned False with timeout 0 probed nothing.
ZeroTimeoutProbesNothing ==
    (result = "False" /\ until = 0) =>
        /\ accepted = {}
        /\ check_ports = ConfiguredPorts(kind)

\* A call starts with the configured ports pending.
PendingStartsFull ==
    (pc \notin WaitPcs /\ pc' = "loop") => check_ports' = ConfiguredPorts(kind)

\* A step of a call only removes ports, and removes a port only when the
\* connect attempt of the current pass to it succeeds.
PendingShrinks ==
    pc \in WaitPcs =>
        /\ check_ports' \subseteq check_ports
        /\ check_ports' # check_ports =>
              \E p \in todo \cap up : check_ports' = check_ports \ {p}

\* A pass over the ports begins only with ports pending and the deadline
\* not reached.
PassBeforeDeadline ==
    (pc = "loop" /\ pc' = "probe") =>
        (check_ports # {} /\ until # None /\ clock < until)

\* True is returned for an empty pending set, whatever the clock; False only
\* with ports pending and the deadline reached.
EmptinessFirst ==
    /\ (kind \in CliKinds /\ result = "pending" /\ result' = "True")
           => check_ports = {}
    /\ (result = "pending" /\ result' = "False")
           => (check_ports # {} /\ until # None /\ clock >= until)

\* C24: within one port-probing call the pending set starts as the configured
\* ports and only shrinks, a port leaving it exactly when a connect to it
\* succeeds and never being probed again; emptiness is tested before the
\* deadline, so an empty set yields True even at the deadline, and a call
\* with timeout 0 returns False without probing.
C24_PendingOnlyShrinks ==
    /\ [](PendingIsUnaccepted /\ ZeroTimeoutProbesNothing)
    /\ [][PendingStartsFull /\ PendingShrinks /\ PassBeforeDeadline
            /\ EmptinessFirst]_vars

C24_Witness ==
    /\ waiter = "test"
    /\ result = "True"
    /\ until # None
    /\ clock >= until
    /\ accepted = ConfiguredPorts(kind)


\* C25: the queue of setup_handlers has at most one consumer thread and has
\* exactly one, already started, when the handler is returned; nothing is put
\* on the queue through the handler before that thread exists; and the
\* thread is a daemon thread from the moment it is started.
C25_OneStartedDaemonConsumer ==
    /\ threads <= 1
    /\ spc = "returned" => (threads = 1 /\ rpc # "unstarted")
    /\ enqueued # <<>> => (threads = 1 /\ rpc # "unstarted")
    /\ threads > 0 => daemon

C25_Witness ==
    /\ spc = "returned"
    /\ rpc = "start"
    /\ Len(enqueued) = 1
    /\ threads = 1
    /\ daemon

====
